---- MODULE Spec2Model ----
(***************************************************************************)
(* Model of the Midi repository:                                           *)
(*   - create_melody.py : the rhythm engine                                *)
(*                        create_melody_with_random_durations              *)
(*   - midi_transform.py: the pitch transformers reverse_notes,            *)
(*                        intervallic_inversion, invert_notes and the      *)
(*                        composer main                                    *)
(* Python dicts are records, lists are sequences (1-based here, 0-based in *)
(* the source), None for the hold slot is the empty sequence and a held    *)
(* note n is the one-element sequence <<n>>.                               *)
(***************************************************************************)
EXTENDS Integers, Sequences, FiniteSets, TLC

(***************************************************************************)
(* Bounds of the model.                                                    *)
(***************************************************************************)
MaxNotes == 2      \* longest input of the rhythm engine
MaxSteps == 3      \* loop iterations of the rhythm engine explored
MaxLen   == 3      \* longest input of the pitch transformers
MaxOps   == 2      \* transformers applied one after the other
MaxTrack == 3      \* messages in the file read by the composer
MaxKept  == 1      \* events of the unbounded loop kept in melody_events

(***************************************************************************)
(* Input domains.                                                          *)
(***************************************************************************)
\* note-on events as extract_all_notes builds them (note, velocity)
EngineNotes == {[note |-> 60, velocity |-> 80], [note |-> 62, velocity |-> 90]}

\* values of the ticks_per_beat parameter: the default and a small one
TicksPerBeats == {4, 480}

\* pitches at both ends of the MIDI range, where clamping happens
Pitches == {0, 1, 126, 127}

\* (velocity, time) pairs carried by the events
VelocityTimes == {<<64, 0>>, <<100, 480>>}

\* events as extract_first_12_notes builds them (note, velocity, time)
PitchEvents ==
    {[note |-> p, velocity |-> vt[1], time |-> vt[2]] : p \in Pitches, vt \in VelocityTimes}

\* explicit axis arguments of invert_notes, in quarters of a semitone
\* (the axis is a Python number; 4*axis is kept so that halves and quarters
\* stay integers): -2, 0.25, 63.5, 63.75, 150
AxisQuarters == {-8, 1, 254, 255, 600}

RECURSIVE SeqsUpTo(_, _)
SeqsUpTo(S, n) ==
    IF n = 0 THEN {<<>>}
    ELSE LET shorter == SeqsUpTo(S, n - 1)
         IN  shorter \cup {Append(s, x) : s \in {t \in shorter : Len(t) = n - 1}, x \in S}

VARIABLES
    \* create_melody_with_random_durations
    notes,            \* parameter notes
    ticks_per_beat,   \* parameter ticks_per_beat
    melody_events,    \* list of emitted events
    note_index,       \* cursor into notes (0-based, as in the source)
    held_note,        \* hold slot: None or <<event>>
    event_number,     \* loop counter, starts at 1
    draws,            \* the (duration_choice, modifier_choice) pairs drawn so far
    pc,               \* "loop" inside the while loop, "done" after return
    \* pitch transformers of midi_transform.py
    t_input,          \* the sequence the transformers are applied to
    t_out,            \* the result of the transformers applied so far
    t_ops,            \* the calls made so far, oldest first
    \* main of midi_transform.py
    midi,             \* the messages of the input file, all tracks in file order
    step1_notes, step2_notes, step3_notes, step4_notes,
    all_notes,        \* the returned sequence
    main_pc           \* "step1" .. "step4", "combine", "returned"

engine_vars == <<notes, ticks_per_beat, melody_events, note_index, held_note,
                 event_number, draws, pc>>
transform_vars == <<t_input, t_out, t_ops>>

main_vars == <<midi, step1_notes, step2_notes, step3_notes, step4_notes, all_notes, main_pc>>

vars == <<engine_vars, transform_vars, main_vars>>

None == <<>>

(***************************************************************************)
(* create_melody_with_random_durations                                     *)
(***************************************************************************)
\* duration_map with a wrong divisor for the 1/32 note
duration_map_wrong32(tpb) ==
    [c \in 1..6 |-> CASE c = 1 -> tpb \div 16
                      [] c = 2 -> tpb \div 4
                      [] c = 3 -> tpb \div 2
                      [] c = 4 -> tpb
                      [] c = 5 -> tpb * 2
                      [] c = 6 -> tpb * 4]

duration_map(tpb) ==
    [c \in 1..6 |-> CASE c = 1 -> tpb \div 8
                      [] c = 2 -> tpb \div 4
                      [] c = 3 -> tpb \div 2
                      [] c = 4 -> tpb
                      [] c = 5 -> tpb * 2
                      [] c = 6 -> tpb * 4]

\* int(base_duration * 1.5): the product is exact and non-negative, int floors
dotted_duration(base_duration) == (3 * base_duration) \div 2

NoteEvent(n, d) ==
    [type |-> "note", note |-> n.note, velocity |-> n.velocity, duration |-> d]

RestEvent(d) == [type |-> "rest", duration |-> d]

\* an iteration that reads the next input event although one is held
current_note_ignores_hold == notes[note_index + 1]

\* lines 81-88: the event this iteration uses
current_note == IF held_note # None THEN held_note[1] ELSE notes[note_index + 1]

\* a cursor that advances on a held step too
next_index_always_advances == note_index + 1

\* lines 81-88: the cursor after choosing the event
next_index == IF held_note # None THEN note_index ELSE note_index + 1

\* while note_index < len(notes)
LoopGuard == pc = "loop" /\ note_index < Len(notes)

\* modifier_choice == 1
StepNormal ==
    /\ LoopGuard
    /\ Len(melody_events) < MaxSteps
    /\ \E duration_choice \in 1..6 :
         LET base_duration == duration_map(ticks_per_beat)[duration_choice]
         IN  /\ melody_events' = Append(melody_events, NoteEvent(current_note, base_duration))
             /\ draws' = Append(draws, <<duration_choice, 1>>)
    /\ held_note' = None
    /\ note_index' = next_index
    /\ event_number' = event_number + 1
    /\ UNCHANGED <<notes, ticks_per_beat, pc>>
    /\ UNCHANGED <<transform_vars, main_vars>>

\* modifier_choice == 2
StepDotted ==
    /\ LoopGuard
    /\ Len(melody_events) < MaxSteps
    /\ \E duration_choice \in 1..6 :
         LET base_duration == duration_map(ticks_per_beat)[duration_choice]
         IN  /\ melody_events' = Append(melody_events,
                                        NoteEvent(current_note, dotted_duration(base_duration)))
             /\ draws' = Append(draws, <<duration_choice, 2>>)
    /\ held_note' = None
    /\ note_index' = next_index
    /\ event_number' = event_number + 1
    /\ UNCHANGED <<notes, ticks_per_beat, pc>>
    /\ UNCHANGED <<transform_vars, main_vars>>

\* modifier_choice == 3
StepSilence ==
    /\ LoopGuard
    /\ Len(melody_events) < MaxSteps
    /\ \E duration_choice \in 1..6 :
         LET base_duration == duration_map(ticks_per_beat)[duration_choice]
         IN  /\ melody_events' = Append(melody_events, RestEvent(base_duration))
             /\ draws' = Append(draws, <<duration_choice, 3>>)
    /\ held_note' = <<current_note>>
    /\ note_index' = next_index
    /\ event_number' = event_number + 1
    /\ UNCHANGED <<notes, ticks_per_beat, pc>>
    /\ UNCHANGED <<transform_vars, main_vars>>

\* the while condition is false: return melody_events
Return ==
    /\ pc = "loop"
    /\ ~(note_index < Len(notes))
    /\ pc' = "done"
    /\ UNCHANGED <<notes, ticks_per_beat, melody_events, note_index, held_note,
                   event_number, draws>>
    /\ UNCHANGED <<transform_vars, main_vars>>

TransformIdle == t_input = <<>> /\ t_out = <<>> /\ t_ops = <<>>

MainIdle ==
    /\ midi = <<>>
    /\ step1_notes = <<>> /\ step2_notes = <<>> /\ step3_notes = <<>> /\ step4_notes = <<>>
    /\ all_notes = <<>>
    /\ main_pc = "returned"

Init ==
    /\ notes \in SeqsUpTo(EngineNotes, MaxNotes)
    /\ ticks_per_beat \in TicksPerBeats
    /\ melody_events = <<>>
    /\ note_index = 0
    /\ held_note = None
    /\ event_number = 1
    /\ draws = <<>>
    /\ pc = "loop"
    /\ TransformIdle
    /\ MainIdle

Next == StepNormal \/ StepDotted \/ StepSilence \/ Return

Spec == Init /\ [][Next]_vars

TypeOK ==
    /\ note_index \in 0..Len(notes)
    /\ event_number = Len(melody_events) + 1
    /\ Len(draws) = Len(melody_events)
    /\ pc \in {"loop", "done"}

(***************************************************************************)
(* midi_transform.py: pitch transformers                                   *)
(***************************************************************************)
\* max(0, min(127, new_note))
Min(a, b) == IF a < b THEN a ELSE b
Max(a, b) == IF a > b THEN a ELSE b
clamp(new_note) == Max(0, Min(127, new_note))

\* list(reversed(notes)): reversed walks the list from its last element
RECURSIVE reversed(_, _)
reversed(s, i) == IF i = 0 THEN <<>> ELSE <<s[i]>> \o reversed(s, i - 1)

\* a reversal that loses the last element
reverse_notes_drop_last(s) == IF s = <<>> THEN <<>> ELSE reversed(s, Len(s) - 1)

reverse_notes(s) == reversed(s, Len(s))

\* the loop of intervallic_inversion, i is the 1-based index of the next note
RECURSIVE intervallic_loop(_, _, _)
intervallic_loop(s, inverted, i) ==
    IF i > Len(s) THEN inverted
    ELSE LET interval          == s[i].note - s[i - 1].note
             inverted_interval == -interval
             new_note          == inverted[i - 1].note + inverted_interval
         IN  intervallic_loop(s,
                 Append(inverted, [note     |-> clamp(new_note),
                                   velocity |-> s[i].velocity,
                                   time     |-> s[i].time]),
                 i + 1)

\* the same loop applying the interval to the previous input note
RECURSIVE intervallic_loop_from_input(_, _, _)
intervallic_loop_from_input(s, inverted, i) ==
    IF i > Len(s) THEN inverted
    ELSE LET interval          == s[i].note - s[i - 1].note
             inverted_interval == -interval
             new_note          == s[i - 1].note + inverted_interval
         IN  intervallic_loop_from_input(s,
                 Append(inverted, [note     |-> clamp(new_note),
                                   velocity |-> s[i].velocity,
                                   time     |-> s[i].time]),
                 i + 1)

intervallic_inversion_from_input(s) ==
    IF s = <<>> THEN <<>> ELSE intervallic_loop_from_input(s, <<s[1]>>, 2)

intervallic_inversion(s) ==
    IF s = <<>> THEN <<>> ELSE intervallic_loop(s, <<s[1]>>, 2)

\* int(x) for x = h/2: truncation toward zero
int_of_halves(h) == IF h >= 0 THEN h \div 2 ELSE -((-h) \div 2)

SeqMin(s) == CHOOSE m \in {s[i].note : i \in 1..Len(s)} : \A j \in 1..Len(s) : m <= s[j].note
SeqMax(s) == CHOOSE m \in {s[i].note : i \in 1..Len(s)} : \A j \in 1..Len(s) : m >= s[j].note

\* the axis invert_notes uses, in quarters: the argument, or for None
\* (min_note + max_note) / 2
axis_quarters(s, axis) == IF axis = None THEN 2 * (SeqMin(s) + SeqMax(s)) ELSE axis[1]

\* int(2 * axis - note): 2*axis - note = (axis4 - 2*note) / 2
inverted_raw(axis4, n) == int_of_halves(axis4 - 2 * n)

\* invert_notes with an upper limit of 126
invert_notes_clamp126(s, axis) ==
    IF s = <<>> THEN <<>>
    ELSE LET axis4 == axis_quarters(s, axis)
         IN  [i \in 1..Len(s) |->
                 [note     |-> Max(0, Min(126, inverted_raw(axis4, s[i].note))),
                  velocity |-> s[i].velocity,
                  time     |-> s[i].time]]

\* invert_notes without the lower limit
invert_notes_no_floor(s, axis) ==
    IF s = <<>> THEN <<>>
    ELSE LET axis4 == axis_quarters(s, axis)
         IN  [i \in 1..Len(s) |->
                 [note     |-> Min(127, inverted_raw(axis4, s[i].note)),
                  velocity |-> s[i].velocity,
                  time     |-> s[i].time]]

invert_notes(s, axis) ==
    IF s = <<>> THEN <<>>
    ELSE LET axis4 == axis_quarters(s, axis)
         IN  [i \in 1..Len(s) |->
                 [note     |-> clamp(inverted_raw(axis4, s[i].note)),
                  velocity |-> s[i].velocity,
                  time     |-> s[i].time]]

\* the axis arguments: None or <<4*axis>>
AxisArgs == {None} \cup {<<q>> : q \in AxisQuarters}

CallReverse ==
    /\ Len(t_ops) < MaxOps
    /\ t_out' = reverse_notes(t_out)
    /\ t_ops' = Append(t_ops, <<"reverse_notes", None>>)
    /\ UNCHANGED t_input
    /\ UNCHANGED <<engine_vars, main_vars>>

CallIntervallic ==
    /\ Len(t_ops) < MaxOps
    /\ t_out' = intervallic_inversion(t_out)
    /\ t_ops' = Append(t_ops, <<"intervallic_inversion", None>>)
    /\ UNCHANGED t_input
    /\ UNCHANGED <<engine_vars, main_vars>>

CallInvert ==
    /\ Len(t_ops) < MaxOps
    /\ \E axis \in AxisArgs :
         /\ t_out' = invert_notes(t_out, axis)
         /\ t_ops' = Append(t_ops, <<"invert_notes", axis>>)
    /\ UNCHANGED t_input
    /\ UNCHANGED <<engine_vars, main_vars>>

EngineIdle ==
    /\ notes = <<>>
    /\ ticks_per_beat = 480
    /\ melody_events = <<>>
    /\ note_index = 0
    /\ held_note = None
    /\ event_number = 1
    /\ draws = <<>>
    /\ pc = "done"

InitTransform ==
    /\ t_input \in SeqsUpTo(PitchEvents, MaxLen)
    /\ t_out = t_input
    /\ t_ops = <<>>
    /\ EngineIdle
    /\ MainIdle

NextTransform == CallReverse \/ CallIntervallic \/ CallInvert

SpecTransform == InitTransform /\ [][NextTransform]_vars

(***************************************************************************)
(* midi_transform.py: extract_first_12_notes and main                      *)
(***************************************************************************)
\* messages of the input file: note-on with and without velocity, note-off
Messages ==
    { [type |-> "note_on",  note |-> 1,   velocity |-> 64,  time |-> 0],
      [type |-> "note_on",  note |-> 127, velocity |-> 100, time |-> 480],
      [type |-> "note_on",  note |-> 126, velocity |-> 80,  time |-> 0],
      [type |-> "note_on",  note |-> 1,   velocity |-> 0,   time |-> 480],
      [type |-> "note_off", note |-> 127, velocity |-> 64,  time |-> 480] }

FirstNotes == 12

\* the loop of extract_first_12_notes over the messages, i is the next message
RECURSIVE extract_loop(_, _, _)
extract_loop(msgs, ns, i) ==
    IF i > Len(msgs) THEN ns
    ELSE LET msg == msgs[i]
         IN  IF msg.type = "note_on" /\ msg.velocity > 0
             THEN LET appended == Append(ns, [note     |-> msg.note,
                                              velocity |-> msg.velocity,
                                              time     |-> msg.time])
                  IN  IF Len(appended) = FirstNotes THEN appended
                      ELSE extract_loop(msgs, appended, i + 1)
             ELSE extract_loop(msgs, ns, i + 1)

extract_first_12_notes(msgs) == extract_loop(msgs, <<>>, 1)

\* a combination with the second and third part exchanged
combine_swapped(s1, s2, s3, s4) == s1 \o s3 \o s2 \o s4

\* step1_notes + step2_notes + step3_notes + step4_notes
combine(s1, s2, s3, s4) == s1 \o s2 \o s3 \o s4

MainStep1 ==
    /\ main_pc = "step1"
    /\ step1_notes' = extract_first_12_notes(midi)
    /\ main_pc' = "step2"
    /\ UNCHANGED <<midi, step2_notes, step3_notes, step4_notes, all_notes>>
    /\ UNCHANGED <<engine_vars, transform_vars>>

MainStep2 ==
    /\ main_pc = "step2"
    /\ step2_notes' = reverse_notes(step1_notes)
    /\ main_pc' = "step3"
    /\ UNCHANGED <<midi, step1_notes, step3_notes, step4_notes, all_notes>>
    /\ UNCHANGED <<engine_vars, transform_vars>>

MainStep3 ==
    /\ main_pc = "step3"
    /\ step3_notes' = intervallic_inversion(step1_notes)
    /\ main_pc' = "step4"
    /\ UNCHANGED <<midi, step1_notes, step2_notes, step4_notes, all_notes>>
    /\ UNCHANGED <<engine_vars, transform_vars>>

MainStep4 ==
    /\ main_pc = "step4"
    /\ step4_notes' = reverse_notes(step3_notes)
    /\ main_pc' = "combine"
    /\ UNCHANGED <<midi, step1_notes, step2_notes, step3_notes, all_notes>>
    /\ UNCHANGED <<engine_vars, transform_vars>>

\* all_notes is built, handed to create_midi_file and returned
MainCombine ==
    /\ main_pc = "combine"
    /\ all_notes' = combine(step1_notes, step2_notes, step3_notes, step4_notes)
    /\ main_pc' = "returned"
    /\ UNCHANGED <<midi, step1_notes, step2_notes, step3_notes, step4_notes>>
    /\ UNCHANGED <<engine_vars, transform_vars>>

InitMain ==
    /\ midi \in SeqsUpTo(Messages, MaxTrack)
    /\ step1_notes = <<>> /\ step2_notes = <<>> /\ step3_notes = <<>> /\ step4_notes = <<>>
    /\ all_notes = <<>>
    /\ main_pc = "step1"
    /\ EngineIdle
    /\ TransformIdle

NextMain == MainStep1 \/ MainStep2 \/ MainStep3 \/ MainStep4 \/ MainCombine

SpecMain == InitMain /\ [][NextMain]_vars

(***************************************************************************)
(* Properties                                                              *)
(***************************************************************************)
Last(s) == s[Len(s)]

\* C1: the rhythm engine never stops while its hold slot is occupied: once
\* the loop has been left and melody_events returned, held_note is None.
C1_NeverReturnsHolding == pc = "done" => held_note = None

\* the forced draws of the one-event scenario: (4, silence) then (4, normal)
ScenarioDraws == << <<4, 3>>, <<4, 1>> >>

IsPrefix(s, t) == Len(s) <= Len(t) /\ \A i \in 1..Len(s) : s[i] = t[i]

\* C2: for the input [{note 60, velocity 80}] at 480 ticks per beat, with the
\* draws forced to (4, 3) then (4, 1), the engine returns after exactly two
\* steps with [rest 480, note 60/80/480], the hold slot empty and the cursor
\* at the end of the input.
C2_OneEventScenario ==
    ( /\ pc = "done"
      /\ notes = << [note |-> 60, velocity |-> 80] >>
      /\ ticks_per_beat = 480
      /\ draws # <<>>
      /\ IsPrefix(draws, ScenarioDraws) )
    => /\ draws = ScenarioDraws
       /\ melody_events = << RestEvent(480),
                             [type |-> "note", note |-> 60, velocity |-> 80, duration |-> 480] >>
       /\ held_note = None
       /\ note_index = Len(notes)

\* t_out is invert_notes(invert_notes(t_input, axis), axis) for an explicit axis
InvertedTwice ==
    /\ Len(t_ops) = 2
    /\ t_ops[1][1] = "invert_notes"
    /\ t_ops[1][2] # None
    /\ t_ops[2] = t_ops[1]

\* no pitch of invert_notes(s, axis) was changed by the clamp
NoClamping(s, axis4) == \A i \in 1..Len(s) : inverted_raw(axis4, s[i].note) \in 0..127

\* 2*axis - pitch is not negative, so that int() did not round a value of
\* the open interval (-1, 0) up to 0
NoNegativeDifference(s, axis4) == \A i \in 1..Len(s) : axis4 - 2 * s[i].note >= 0

\* C3 as stated: invert_notes applied twice with the same explicit axis gives
\* the input back whenever no transformed pitch of the first call was clamped.
C3_InvolutionWithoutClamping ==
    (InvertedTwice /\ NoClamping(t_input, t_ops[1][2][1])) => t_out = t_input

\* C3 amended: invert_notes applied twice with the same explicit axis gives
\* the input back whenever no transformed pitch of the first call was clamped
\* and no difference 2*axis - pitch was negative before truncation.
C3_InvolutionExact ==
    ( /\ InvertedTwice
      /\ NoClamping(t_input, t_ops[1][2][1])
      /\ NoNegativeDifference(t_input, t_ops[1][2][1]) )
    => t_out = t_input

\* a sequence of three different pitches inverted twice around 63.75, where
\* 2*axis - pitch has a fractional part that int() cuts off
C3_Witness ==
    /\ InvertedTwice
    /\ t_ops[1][2] = <<255>>
    /\ Len(t_input) = 3
    /\ t_input[1].note = 0 /\ t_input[2].note = 127 /\ t_input[3].note = 1
    /\ t_out = t_input

CanonicalBase == {60, 120, 240, 480, 960, 1920}
CanonicalDurations == {60, 90, 120, 180, 240, 360, 480, 720, 960, 1440, 1920, 2880}

\* C4: at 480 ticks per beat every emitted event has one of the twelve
\* canonical durations, and every rest one of the six base durations.
C4_CanonicalDurations ==
    ticks_per_beat = 480 =>
        \A i \in 1..Len(melody_events) :
            /\ melody_events[i].duration \in CanonicalDurations
            /\ melody_events[i].type = "rest" => melody_events[i].duration \in CanonicalBase

\* a run at 480 ticks per beat that emitted a rest, a dotted note and a 1/32 note
C4_Witness ==
    /\ ticks_per_beat = 480
    /\ Len(melody_events) = 3
    /\ melody_events[1].type = "rest"
    /\ melody_events[2].type = "note" /\ melody_events[2].duration = 2880
    /\ melody_events[3].type = "note" /\ melody_events[3].duration = 60

\* C5: intervallic_inversion keeps the length and the first event, and every
\* later pitch is the previous output pitch minus the input interval, clamped
\* to 0..127, with the velocity and time of the input event.
C5_RunningRecurrence ==
    t_ops = << <<"intervallic_inversion", None>> >> =>
        /\ Len(t_out) = Len(t_input)
        /\ t_input # <<>> => t_out[1] = t_input[1]
        /\ \A i \in 2..Len(t_input) :
              /\ t_out[i].note =
                    clamp(t_out[i - 1].note - (t_input[i].note - t_input[i - 1].note))
              /\ t_out[i].velocity = t_input[i].velocity
              /\ t_out[i].time = t_input[i].time

\* the second pitch was clamped, and the third differs from what the
\* previous input pitch would have given
C5_Witness ==
    /\ t_ops = << <<"intervallic_inversion", None>> >>
    /\ Len(t_input) = 3
    /\ t_input[1].note = 1 /\ t_input[2].note = 127 /\ t_input[3].note = 1
    /\ t_out[2].note = 0
    /\ t_out[3].note = 126
    /\ t_input[2].velocity # t_input[3].velocity

\* C6: every pitch in the output of reverse_notes, intervallic_inversion and
\* invert_notes (axis given or computed) lies in 0..127.
C6_PitchesInRange == \A i \in 1..Len(t_out) : t_out[i].note \in 0..127

\* an inversion around the axis -2, where every difference is negative
C6_Witness ==
    /\ t_ops = << <<"invert_notes", <<-8>> >> >>
    /\ Len(t_input) = 3
    /\ t_input[3].note = 127
    /\ \A i \in 1..3 : t_out[i].note = 0

\* C7: reverse_notes(S) has the length of S and element i is S[len(S)-1-i]
\* unaltered, and reverse_notes(reverse_notes(S)) is S.
C7_Reverse ==
    /\ t_ops = << <<"reverse_notes", None>> >> =>
          /\ Len(t_out) = Len(t_input)
          /\ \A i \in 1..Len(t_input) : t_out[i] = t_input[Len(t_input) + 1 - i]
    /\ t_ops = << <<"reverse_notes", None>>, <<"reverse_notes", None>> >> =>
          t_out = t_input

\* a sequence that is no palindrome reversed twice
C7_Witness ==
    /\ t_ops = << <<"reverse_notes", None>>, <<"reverse_notes", None>> >>
    /\ Len(t_input) = 3
    /\ t_input[1] # t_input[3]
    /\ t_out = t_input

\* C8: main returns original, reverse_notes(original),
\* intervallic_inversion(original) and its reversal, concatenated in this
\* order, four times as long as original, and step1_notes stays the
\* extracted sequence while the other parts are built.
C8_Composer ==
    LET original == extract_first_12_notes(midi)
        n        == Len(original)
        inverted == intervallic_inversion(original)
    IN  /\ main_pc # "step1" => step1_notes = original
        /\ (main_pc = "returned" /\ midi # <<>>) =>
              /\ Len(all_notes) = 4 * n
              /\ \A i \in 1..n :
                    /\ all_notes[i] = original[i]
                    /\ all_notes[n + i] = original[n + 1 - i]
                    /\ all_notes[2 * n + i] = inverted[i]
                    /\ all_notes[3 * n + i] = inverted[n + 1 - i]

\* a file with a message that is skipped and two notes whose inversion
\* differs from both the original and its reversal
C8_Witness ==
    /\ main_pc = "returned"
    /\ Len(midi) = 3
    /\ Len(step1_notes) = 2
    /\ step3_notes # step1_notes
    /\ step3_notes # step2_notes
    /\ Len(all_notes) = 8

\* C9: every emitted event has a duration of at least 1 tick, for every
\* positive ticks_per_beat.
C9_PositiveDurations ==
    \A i \in 1..Len(melody_events) : melody_events[i].duration >= 1

\* C10: a step with the hold slot occupied uses the held event, clears the
\* slot and keeps the cursor; a step with the slot empty uses
\* notes[note_index] and advances the cursor by 1; modifier 3 emits one rest
\* of the base duration and holds the event just used; modifier 1 or 2 emits
\* one note of that event and leaves the slot empty.
C10_HoldStepRule ==
    [][ melody_events' # melody_events =>
          LET used   == IF held_note # None THEN held_note[1] ELSE notes[note_index + 1]
              drawn  == Last(draws')
              base   == duration_map(ticks_per_beat)[drawn[1]]
              event  == Last(melody_events')
          IN  /\ Len(melody_events') = Len(melody_events) + 1
              /\ SubSeq(melody_events', 1, Len(melody_events)) = melody_events
              /\ held_note # None => note_index' = note_index
              /\ held_note = None => note_index' = note_index + 1
              /\ drawn[2] = 3 =>
                    /\ event = RestEvent(base)
                    /\ held_note' = <<used>>
              /\ drawn[2] \in {1, 2} =>
                    /\ event.type = "note"
                    /\ event.note = used.note
                    /\ event.velocity = used.velocity
                    /\ held_note' = None
    ]_vars

\* two silences in a row on the first of two events: both steps emitted a
\* rest, the cursor moved once and the same event is held again
C10_Witness ==
    /\ Len(notes) = 2
    /\ notes[1] # notes[2]
    /\ Len(draws) = 2
    /\ draws[1][2] = 3 /\ draws[2][2] = 3
    /\ draws[1][1] # draws[2][1]
    /\ melody_events[1].type = "rest" /\ melody_events[2].type = "rest"
    /\ note_index = 1
    /\ held_note = <<notes[1]>>

\* the note events among the emitted events, in emission order
RECURSIVE EmittedNotes(_)
EmittedNotes(events) ==
    IF events = <<>> THEN <<>>
    ELSE LET rest_of == EmittedNotes(SubSeq(events, 1, Len(events) - 1))
             e       == Last(events)
         IN  IF e.type = "note"
             THEN Append(rest_of, [note |-> e.note, velocity |-> e.velocity])
             ELSE rest_of

\* C12: the notes emitted so far carry, in emission order, exactly the pitch
\* and velocity of the first k input events, with k = note_index when the
\* hold slot is empty and k = note_index - 1 when it is occupied, the held
\* event then being notes[note_index - 1] (0-based).
C12_EmittedInInputOrder ==
    LET k == IF held_note = None THEN note_index ELSE note_index - 1
    IN  /\ k \in 0..Len(notes)
        /\ EmittedNotes(melody_events) = SubSeq(notes, 1, k)
        /\ held_note # None => held_note = <<notes[note_index]>>

\* two different events, the first held over a rest and then emitted, the
\* second emitted after it
C12_Witness ==
    /\ Len(notes) = 2
    /\ notes[1] # notes[2]
    /\ Len(melody_events) = 3
    /\ melody_events[1].type = "rest"
    /\ melody_events[2].type = "note"
    /\ melody_events[3].type = "note"
    /\ note_index = 2
    /\ held_note = None

(***************************************************************************)
(* create_melody_with_random_durations, the loop without a step limit.     *)
(* The loop may run for ever, so melody_events and draws keep their last   *)
(* MaxKept entries and event_number stops counting at MaxSteps + 1; the    *)
(* hold slot, the cursor and the loop condition are as in the source.      *)
(***************************************************************************)
Kept(s) == IF Len(s) > MaxKept THEN SubSeq(s, Len(s) - MaxKept + 1, Len(s)) ELSE s

Counted(n) == IF n > MaxSteps THEN MaxSteps + 1 ELSE n

\* a cursor that is never advanced
loop_index_never_advances == note_index

\* lines 81-88: the cursor after choosing the event
loop_index == IF held_note # None THEN note_index ELSE note_index + 1

\* modifier_choice == 1
LoopNormal ==
    /\ LoopGuard
    /\ \E duration_choice \in 1..6 :
         LET base_duration == duration_map(ticks_per_beat)[duration_choice]
         IN  /\ melody_events' =
                    Kept(Append(melody_events, NoteEvent(current_note, base_duration)))
             /\ draws' = Kept(Append(draws, <<duration_choice, 1>>))
    /\ held_note' = None
    /\ note_index' = loop_index
    /\ event_number' = Counted(event_number + 1)
    /\ UNCHANGED <<notes, ticks_per_beat, pc>>
    /\ UNCHANGED <<transform_vars, main_vars>>

\* modifier_choice == 2
LoopDotted ==
    /\ LoopGuard
    /\ \E duration_choice \in 1..6 :
         LET base_duration == duration_map(ticks_per_beat)[duration_choice]
         IN  /\ melody_events' =
                    Kept(Append(melody_events,
                                NoteEvent(current_note, dotted_duration(base_duration))))
             /\ draws' = Kept(Append(draws, <<duration_choice, 2>>))
    /\ held_note' = None
    /\ note_index' = loop_index
    /\ event_number' = Counted(event_number + 1)
    /\ UNCHANGED <<notes, ticks_per_beat, pc>>
    /\ UNCHANGED <<transform_vars, main_vars>>

\* modifier_choice == 3
LoopSilence ==
    /\ LoopGuard
    /\ \E duration_choice \in 1..6 :
         LET base_duration == duration_map(ticks_per_beat)[duration_choice]
         IN  /\ melody_events' = Kept(Append(melody_events, RestEvent(base_duration)))
             /\ draws' = Kept(Append(draws, <<duration_choice, 3>>))
    /\ held_note' = <<current_note>>
    /\ note_index' = loop_index
    /\ event_number' = Counted(event_number + 1)
    /\ UNCHANGED <<notes, ticks_per_beat, pc>>
    /\ UNCHANGED <<transform_vars, main_vars>>

NextLoop == LoopNormal \/ LoopDotted \/ LoopSilence \/ Return

\* the function runs on its own thread of control: as long as an iteration
\* or the return is possible, one is taken
SpecLoop == Init /\ [][NextLoop]_vars /\ WF_vars(NextLoop)

\* the modifier draw is fair: a draw of 1 or 2 comes back again and again
FairModifierDraws == []<>(draws # <<>> /\ Last(draws)[2] \in {1, 2})

\* from some point on the same event is held and every draw is a silence
SilenceForEverOn(k) ==
    <>[](pc = "loop" /\ note_index = k /\ held_note = <<notes[k]>>
         /\ draws # <<>> /\ Last(draws)[2] = 3)

\* C11: with a fair modifier draw the engine eventually returns, on every
\* input; a run that never returns draws silence for ever on one held event.
C11_TerminationUnderFairDraws ==
    /\ FairModifierDraws => <>(pc = "done")
    /\ \/ <>(pc = "done")
       \/ \E k \in 1..(MaxNotes + 1) : SilenceForEverOn(k)

\* a run of two events that returned with the hold slot empty after more
\* iterations than events, so after at least one silence that was recovered
C11_Witness ==
    /\ pc = "done"
    /\ Len(notes) = 2
    /\ note_index = 2
    /\ held_note = None
    /\ event_number >= 4
    /\ draws # <<>> /\ Last(draws)[2] \in {1, 2}

====
